---- MODULE Spec2Model ----
(***************************************************************************)
(* The partitioning layer of the storage engine of bevy_ecs:               *)
(*   crates/bevy_ecs/src/storage/mod.rs          Storages, SubStorages,     *)
(*                                               SubStorage, get_2_mut,     *)
(*                                               Index, prepare_bundle      *)
(*   crates/bevy_ecs/src/storage/sub_storage.rs  SubStorages::new, indices, *)
(*                                               SubStorageData, Index      *)
(*                                                                         *)
(* The two declarations of a partition (SubStorage in storage/mod.rs and   *)
(* SubStorageData in storage/sub_storage.rs) are modelled as one record:   *)
(* the id and archetypes of SubStorageData, and under "storage" the four   *)
(* fields of SubStorage.  A Vec is a sequence; positions are counted from  *)
(* 0 as in the source, so position p of a Vec v is v[p + 1].  A reference  *)
(* into the backing sequence is modelled by the position it denotes.       *)
(***************************************************************************)
EXTENDS Integers, Sequences, FiniteSets, TLC

\* Largest number of partitions the model registers.
MaxParts == 2

\* SubStorageId::INVALID is SubStorageId(u32::MAX).  TLC's integers are 32-bit
\* signed, so u32::MAX is represented by the largest integer TLC has; the code
\* uses nothing of it but that it exceeds every length a Vec reaches.
INVALID == 2147483647

\* SubStorages::MAIN_STORAGE, and the value of SubStorageId::empty().
MAIN_STORAGE == 0

\* "No value" in the record of the last call.
NONE == 0 - 1

VARIABLES
    sub_storages,        \* SubStorages.sub_storages : Vec of partitions
    indices,             \* SubStorages.indices : key -> SubStorageId
    resources,           \* Storages.resources
    non_send_resources,  \* Storages.non_send_resources
    components,          \* the component registry: component id -> StorageType
    last                 \* the last call: its name, arguments and result

vars == <<sub_storages, indices, resources, non_send_resources, components, last>>

\* ------------------------------------------------------------------ inputs

Keys == {"MainStorage", "KeyA", "KeyB"}
ComponentIds == {0, 1}
StorageTypes == {"Table", "SparseSet"}
Entities == {7}
ResourceIds == {0}
\* BundleInfo: a bundle id and the ordered component ids it contributes.
BundleInfos ==
    { [id |-> 0, contributed |-> <<0>>],
      [id |-> 1, contributed |-> <<1, 0>>] }
BundleIds == {bi.id : bi \in BundleInfos}
IdInputs == (0 .. MaxParts) \cup {INVALID}

EmptyMap == [x \in {} |-> {}]

Call(op, a, b, panicked, refs, repeat) ==
    [op |-> op, a |-> a, b |-> b, panicked |-> panicked, refs |-> refs,
     repeat |-> repeat]

\* ------------------------------------------------------------------ ids

\* self.0 as usize: u32 to usize widens, every u32 value is kept.
as_usize(id) == id

SubStorageId_empty == 0

\* ------------------------------------------------------------------ Vec and slices

VecGet(v, p) == v[p + 1]

Panic == [panicked |-> TRUE, refs |-> <<>>]

\* A sub-slice of the backing sequence: where it starts and how long it is.
WholeSlice(v) == [off |-> 0, len |-> Len(v)]

\* slice::split_at_mut(mid): panics if mid > len.
split_at_mut(s, mid) ==
    IF mid > s.len
    THEN [panicked |-> TRUE, left |-> s, right |-> s]
    ELSE [panicked |-> FALSE,
          left  |-> [off |-> s.off, len |-> mid],
          right |-> [off |-> s.off + mid, len |-> s.len - mid]]

\* &mut s[k]: panics if k >= len, else the position of the backing sequence.
slice_index(s, k) ==
    IF k < s.len
    THEN [panicked |-> FALSE, refs |-> <<s.off + k>>]
    ELSE Panic

Pair(x, y) ==
    IF x.panicked \/ y.panicked
    THEN Panic
    ELSE [panicked |-> FALSE, refs |-> x.refs \o y.refs]

\* ------------------------------------------------------------------ SubStorages

index_off_by_one(v, id) ==
    IF as_usize(id) <= Len(v)
    THEN [panicked |-> FALSE, refs |-> <<as_usize(id)>>]
    ELSE Panic

\* Index / IndexMut for SubStorages: &self.sub_storages[index.as_usize()]
index(v, id) ==
    slice_index(WholeSlice(v), as_usize(id))

\* get_2_mut splitting at the smaller index in the a > b branch.
get_2_mut_split_small(v, a, b) ==
    IF as_usize(a) > as_usize(b)
    THEN LET sp == split_at_mut(WholeSlice(v), as_usize(b))
         IN  IF sp.panicked THEN Panic
             ELSE Pair(slice_index(sp.right, 0), slice_index(sp.left, as_usize(b)))
    ELSE LET sp == split_at_mut(WholeSlice(v), as_usize(b))
         IN  IF sp.panicked THEN Panic
             ELSE Pair(slice_index(sp.left, as_usize(a)), slice_index(sp.right, 0))

\* get_2_mut returning its pair in index order in the a > b branch.
get_2_mut_swapped(v, a, b) ==
    IF as_usize(a) > as_usize(b)
    THEN LET sp == split_at_mut(WholeSlice(v), as_usize(a))
         IN  IF sp.panicked THEN Panic
             ELSE Pair(slice_index(sp.left, as_usize(b)), slice_index(sp.right, 0))
    ELSE LET sp == split_at_mut(WholeSlice(v), as_usize(b))
         IN  IF sp.panicked THEN Panic
             ELSE Pair(slice_index(sp.left, as_usize(a)), slice_index(sp.right, 0))

\* get_2_mut by two independent element accesses, with no split.
get_2_mut_no_split(v, a, b) ==
    Pair(index(v, a), index(v, b))

get_2_mut(v, a, b) ==
    IF as_usize(a) > as_usize(b)
    THEN LET sp == split_at_mut(WholeSlice(v), as_usize(a))
         IN  IF sp.panicked THEN Panic
             ELSE Pair(slice_index(sp.right, 0), slice_index(sp.left, as_usize(b)))
    ELSE LET sp == split_at_mut(WholeSlice(v), as_usize(b))
         IN  IF sp.panicked THEN Panic
             ELSE Pair(slice_index(sp.left, as_usize(a)), slice_index(sp.right, 0))

\* A partition as it is created: no prepared bundle, no sparse set, no table.
SubStorage_new ==
    [empty |-> 0, prepared |-> {}, sparse_sets |-> EmptyMap, tables |-> <<>>]

SubStorageData(id) ==
    [id |-> id, archetypes |-> <<>>, storage |-> SubStorage_new]

SubStorages_new_wrong_id ==
    [sub_storages |-> <<SubStorageData(0)>>,
     indices |-> [k \in {"MainStorage"} |-> 1]]

\* SubStorages::new(): one partition with id 0, registered under MainStorage.
SubStorages_new ==
    [sub_storages |-> <<SubStorageData(0)>>,
     indices |-> [k \in {"MainStorage"} |-> 0]]

\* #[derive(Default)] for SubStorages: Vec::default() and an empty map.
SubStorages_default ==
    [sub_storages |-> <<>>, indices |-> EmptyMap]

\* lookup_or_register(key): the id and the collection after the call.
lookup_or_register(subs, key) ==
    IF key \in DOMAIN subs.indices
    THEN [id |-> subs.indices[key], subs |-> subs]
    ELSE LET id == Len(subs.sub_storages)
         IN  [id |-> id,
              subs |-> [sub_storages |-> Append(subs.sub_storages, SubStorageData(id)),
                        indices |-> subs.indices @@ (key :> id)]]

\* ------------------------------------------------------------------ SubStorage

\* Components::get_info_unchecked: the ComponentInfo of a component id.
get_info_unchecked(comps, component_id) ==
    [id |-> component_id, storage_type |-> comps[component_id]]

\* SparseSets::get_or_insert: creates the sparse set if it is absent.
get_or_insert(sets, component) ==
    IF component.id \in DOMAIN sets
    THEN sets
    ELSE sets @@ (component.id :> {})

\* prepare_component that creates a table for a table-stored component.
prepare_component_pushes_table(st, component) ==
    CASE component.storage_type = "Table" ->
            [st EXCEPT !.tables = Append(@, {component.id})]
      [] component.storage_type = "SparseSet" ->
            [st EXCEPT !.sparse_sets = get_or_insert(@, component)]

\* prepare_component with the two arms of the match exchanged.
prepare_component_arms_swapped(st, component) ==
    CASE component.storage_type = "SparseSet" -> st
      [] component.storage_type = "Table" ->
            [st EXCEPT !.sparse_sets = get_or_insert(@, component)]

prepare_component(st, component) ==
    CASE component.storage_type = "Table" -> st
      [] component.storage_type = "SparseSet" ->
            [st EXCEPT !.sparse_sets = get_or_insert(@, component)]

RECURSIVE prepare_each(_, _, _)
prepare_each(st, comps, ids) ==
    IF ids = <<>>
    THEN st
    ELSE prepare_each(prepare_component(st, get_info_unchecked(comps, Head(ids))),
                      comps, Tail(ids))

\* prepare_bundle that also records the bundle in the prepared cache.
prepare_bundle_marks_prepared(st, comps, bundle) ==
    [prepare_each(st, comps, bundle.contributed)
        EXCEPT !.prepared = @ \cup {bundle.id}]

prepare_bundle(st, comps, bundle) ==
    prepare_each(st, comps, bundle.contributed)

\* ------------------------------------------------------------------ callers

Range(s) == {s[i] : i \in DOMAIN s}

TableComponents(comps, bundle) ==
    {c \in Range(bundle.contributed) : comps[c] = "Table"}

SparseComponents(comps, bundle) ==
    {c \in Range(bundle.contributed) : comps[c] = "SparseSet"}

\* What the runtime does to a partition when it spawns entity e with a bundle
\* it has prepared: it records the bundle in the prepared cache, creates the
\* table of the bundle's table-stored kinds on first use, and inserts e into
\* the sparse set of each sparse-stored kind.
spawn(st, comps, bundle, e) ==
    LET tc == TableComponents(comps, bundle)
        sc == SparseComponents(comps, bundle)
    IN  [st EXCEPT
            !.prepared = @ \cup {bundle.id},
            !.tables = IF tc \in Range(@) THEN @ ELSE Append(@, tc),
            !.sparse_sets = [c \in DOMAIN @ |->
                                IF c \in sc THEN @[c] \cup {e} ELSE @[c]]]

\* ------------------------------------------------------------------ state machine

\* The storage root as `ctor` builds its partition collection, with empty
\* resource pools, under any component registry.
Constructed_by(ctor) ==
    LET subs == IF ctor = "new" THEN SubStorages_new ELSE SubStorages_default
    IN  /\ sub_storages = subs.sub_storages
        /\ indices = subs.indices
        /\ last = Call(ctor, NONE, NONE, FALSE, <<>>, FALSE)
        /\ resources = {}
        /\ non_send_resources = {}
        /\ components \in [ComponentIds -> StorageTypes]

\* Construction by SubStorages::new() or by the derived Default.
Init == \E ctor \in {"new", "default"} : Constructed_by(ctor)

\* Construction by SubStorages::new().
InitNew == Constructed_by("new")

Index(id) ==
    LET r == index(sub_storages, id)
    IN  /\ last' = Call("index", id, NONE, r.panicked, r.refs, FALSE)
        /\ UNCHANGED <<sub_storages, indices, resources, non_send_resources, components>>

IndexMut(id) ==
    LET r == index(sub_storages, id)
    IN  /\ last' = Call("index_mut", id, NONE, r.panicked, r.refs, FALSE)
        /\ UNCHANGED <<sub_storages, indices, resources, non_send_resources, components>>

Get2Mut(a, b) ==
    LET r == get_2_mut(sub_storages, a, b)
    IN  /\ last' = Call("get_2_mut", a, b, r.panicked, r.refs, FALSE)
        /\ UNCHANGED <<sub_storages, indices, resources, non_send_resources, components>>

LookupOrRegister(key) ==
    /\ key \in DOMAIN indices \/ Len(sub_storages) < MaxParts
    /\ LET r == lookup_or_register(
                    [sub_storages |-> sub_storages, indices |-> indices], key)
       IN  /\ sub_storages' = r.subs.sub_storages
           /\ indices' = r.subs.indices
           /\ last' = Call("lookup_or_register", key, NONE, FALSE, <<r.id>>, FALSE)
    /\ UNCHANGED <<resources, non_send_resources, components>>

PrepareBundle(p, bundle) ==
    /\ p < Len(sub_storages)
    /\ sub_storages' = [sub_storages EXCEPT
            ![p + 1].storage = prepare_bundle(@, components, bundle)]
    /\ last' = Call("prepare_bundle", p, bundle.id, FALSE, <<>>,
                    last.op = "prepare_bundle" /\ last.a = p /\ last.b = bundle.id)
    /\ UNCHANGED <<indices, resources, non_send_resources, components>>

PrepareComponent(p, c) ==
    /\ p < Len(sub_storages)
    /\ sub_storages' = [sub_storages EXCEPT
            ![p + 1].storage = prepare_component(@, get_info_unchecked(components, c))]
    /\ last' = Call("prepare_component", p, c, FALSE, <<>>, FALSE)
    /\ UNCHANGED <<indices, resources, non_send_resources, components>>

Spawn(p, bundle, e) ==
    /\ p < Len(sub_storages)
    /\ SparseComponents(components, bundle)
          \subseteq DOMAIN VecGet(sub_storages, p).storage.sparse_sets
    /\ sub_storages' = [sub_storages EXCEPT
            ![p + 1].storage = spawn(@, components, bundle, e)]
    /\ last' = Call("spawn", p, bundle.id, FALSE, <<>>, FALSE)
    /\ UNCHANGED <<indices, resources, non_send_resources, components>>

ResourcesInsert(send, r) ==
    /\ IF send
       THEN resources' = resources \cup {r} /\ UNCHANGED non_send_resources
       ELSE non_send_resources' = non_send_resources \cup {r} /\ UNCHANGED resources
    /\ last' = Call("resources_insert", r, NONE, FALSE, <<>>, FALSE)
    /\ UNCHANGED <<sub_storages, indices, components>>

Next ==
    \/ \E id \in IdInputs : Index(id)
    \/ \E id \in IdInputs : IndexMut(id)
    \/ \E a \in IdInputs, b \in IdInputs : Get2Mut(a, b)
    \/ \E key \in Keys : LookupOrRegister(key)
    \/ \E p \in 0 .. (MaxParts - 1), bundle \in BundleInfos : PrepareBundle(p, bundle)
    \/ \E p \in 0 .. (MaxParts - 1), c \in ComponentIds : PrepareComponent(p, c)
    \/ \E p \in 0 .. (MaxParts - 1), bundle \in BundleInfos, e \in Entities :
          Spawn(p, bundle, e)
    \/ \E send \in BOOLEAN, r \in ResourceIds : ResourcesInsert(send, r)

Spec == Init /\ [][Next]_vars

\* The calls that read the collection, over every collection the registrations build.
NextAccess ==
    \/ \E id \in IdInputs : Index(id)
    \/ \E id \in IdInputs : IndexMut(id)
    \/ \E a \in IdInputs, b \in IdInputs : Get2Mut(a, b)
    \/ \E key \in Keys : LookupOrRegister(key)

SpecAccess == Init /\ [][NextAccess]_vars

\* The calls that change the collection and its partitions, on the collection
\* SubStorages::new() builds.
NextPrepare ==
    \/ \E key \in Keys : LookupOrRegister(key)
    \/ \E p \in 0 .. (MaxParts - 1), bundle \in BundleInfos : PrepareBundle(p, bundle)
    \/ \E p \in 0 .. (MaxParts - 1), c \in ComponentIds : PrepareComponent(p, c)
    \/ \E p \in 0 .. (MaxParts - 1), bundle \in BundleInfos, e \in Entities :
          Spawn(p, bundle, e)
    \/ \E send \in BOOLEAN, r \in ResourceIds : ResourcesInsert(send, r)

SpecPrepare == InitNew /\ [][NextPrepare]_vars

\* ------------------------------------------------------------------ properties

InRange(id) == id >= 0 /\ id < Len(sub_storages)

BundleOf(id) == CHOOSE bi \in BundleInfos : bi.id = id

Constructed == last.op \in {"new", "default"}

\* C1: for in-range ids a # b, get_2_mut(a, b) returns two references that
\* denote two different positions of the backing sequence, whichever of a, b
\* is the larger.
C1_Get2MutDisjoint ==
    (last.op = "get_2_mut" /\ last.a # last.b /\ InRange(last.a) /\ InRange(last.b))
        => /\ ~last.panicked
           /\ Len(last.refs) = 2
           /\ InRange(last.refs[1]) /\ InRange(last.refs[2])
           /\ last.refs[1] # last.refs[2]

C1_Witness ==
    /\ last.op = "get_2_mut" /\ ~last.panicked
    /\ last.a > last.b
    /\ last.refs[1] # last.refs[2]

\* C2: right after construction (SubStorages::new() or the derived Default)
\* the collection holds exactly one partition, with id 0, and MainStorage
\* maps to it.
C2_OnePartitionAfterConstruction ==
    Constructed
        => /\ Len(sub_storages) = 1
           /\ VecGet(sub_storages, 0).id = 0
           /\ "MainStorage" \in DOMAIN indices
           /\ indices["MainStorage"] = 0

\* C3: in every reachable state id 0 (MAIN_STORAGE, SubStorageId::empty())
\* addresses an existing partition.
C3_MainStorageAlwaysPresent ==
    /\ ~index(sub_storages, MAIN_STORAGE).panicked
    /\ ~index(sub_storages, SubStorageId_empty).panicked

\* C4: a prepare_bundle call that directly follows the same prepare_bundle
\* call (same partition, same bundle) changes nothing: twice is as once.
C4_PrepareBundleIdempotent ==
    [][ (/\ last.op = "prepare_bundle" /\ last'.op = "prepare_bundle"
         /\ last'.a = last.a /\ last'.b = last.b)
          => /\ sub_storages' = sub_storages
             /\ indices' = indices
             /\ resources' = resources
             /\ non_send_resources' = non_send_resources ]_vars

C4_Witness ==
    /\ last.op = "prepare_bundle" /\ last.repeat
    /\ SparseComponents(components, BundleOf(last.b)) # {}
    /\ TableComponents(components, BundleOf(last.b)) # {}

C5_IdsDistinct ==
    /\ \A k1 \in DOMAIN indices, k2 \in DOMAIN indices :
          k1 # k2 => indices[k1] # indices[k2]
    /\ \A k \in DOMAIN indices : indices[k] >= 0

C5_Step ==
    /\ Len(sub_storages') >= Len(sub_storages)
    /\ \A p \in 0 .. (Len(sub_storages) - 1) :
          VecGet(sub_storages', p).id = VecGet(sub_storages, p).id
    /\ \A k \in DOMAIN indices : k \in DOMAIN indices' /\ indices'[k] = indices[k]
    /\ last'.op = "lookup_or_register" =>
          LET key == last'.a
              id == last'.refs[1]
          IN  IF key \in DOMAIN indices
              THEN /\ id = indices[key]
                   /\ sub_storages' = sub_storages
                   /\ indices' = indices
              ELSE /\ id = Len(sub_storages)
                   /\ Len(sub_storages') = Len(sub_storages) + 1
                   /\ VecGet(sub_storages', id).id = id
                   /\ \A p \in 0 .. (Len(sub_storages) - 1) :
                         VecGet(sub_storages', p) = VecGet(sub_storages, p)
                   /\ DOMAIN indices' = DOMAIN indices \cup {key}
                   /\ indices'[key] = id

\* C5: lookup_or_register returns the id of a registered key and changes
\* nothing; for an unregistered key it appends one partition whose id is the
\* previous partition count and records the mapping; ids issued earlier keep
\* addressing the same partition, and distinct keys never share an id.
C5_LookupOrRegister ==
    []C5_IdsDistinct /\ [][C5_Step]_vars

C5_Witness ==
    /\ last.op = "lookup_or_register"
    /\ Len(sub_storages) = 2
    /\ last.refs = <<1>>
    /\ Cardinality(DOMAIN indices) = 2

\* C6: index and index_mut panic, returning no reference, for an id that is
\* not smaller than the number of partitions (SubStorageId::INVALID included);
\* for an in-range id they return the partition at exactly that position, and
\* the collection is unchanged.
C6_IndexPanicsOutOfRange ==
    [][ last'.op \in {"index", "index_mut"}
          => /\ (~InRange(last'.a) => last'.panicked /\ last'.refs = <<>>)
             /\ (InRange(last'.a) =>
                    /\ ~last'.panicked
                    /\ last'.refs = <<last'.a>>
                    /\ VecGet(sub_storages, last'.refs[1]).id = last'.a)
             /\ sub_storages' = sub_storages
             /\ indices' = indices ]_vars

C6_Witness ==
    /\ last.op \in {"index", "index_mut"}
    /\ last.a = INVALID
    /\ last.panicked
    /\ Len(sub_storages) >= 1

\* C7: get_2_mut returns exactly when a # b and both ids are in range; in
\* every other case it panics and returns no reference, so it never returns
\* two references to one partition.
C7_Get2MutFailsFast ==
    last.op = "get_2_mut"
        => /\ ~last.panicked <=>
                (last.a # last.b /\ InRange(last.a) /\ InRange(last.b))
           /\ last.panicked => last.refs = <<>>
           /\ ~last.panicked => last.refs[1] # last.refs[2]

C7_Witness ==
    /\ last.op = "get_2_mut"
    /\ last.a = last.b /\ InRange(last.a)
    /\ last.panicked

\* C8: prepare_bundle gives every contributed SparseSet kind a sparse set
\* (created empty if absent, kept as it was if present) and changes nothing
\* for Table kinds: no table and no sparse set is created for them.
C8_PrepareBundleStorage ==
    [][ last'.op = "prepare_bundle" =>
          LET bundle == BundleOf(last'.b)
              old == VecGet(sub_storages, last'.a).storage
              new == VecGet(sub_storages', last'.a).storage
              sc == {c \in Range(bundle.contributed) : components[c] = "SparseSet"}
          IN  /\ \A c \in sc :
                    /\ c \in DOMAIN new.sparse_sets
                    /\ new.sparse_sets[c] =
                          IF c \in DOMAIN old.sparse_sets
                          THEN old.sparse_sets[c] ELSE {}
              /\ DOMAIN new.sparse_sets = DOMAIN old.sparse_sets \cup sc
              /\ \A c \in DOMAIN old.sparse_sets :
                    new.sparse_sets[c] = old.sparse_sets[c]
              /\ new.tables = old.tables
              /\ (sc = {} => new = old) ]_vars

C8_Witness ==
    /\ last.op = "prepare_bundle"
    /\ \E c \in Range(BundleOf(last.b).contributed) : components[c] = "Table"
    /\ \E c \in Range(BundleOf(last.b).contributed) :
          /\ components[c] = "SparseSet"
          /\ VecGet(sub_storages, last.a).storage.sparse_sets[c] # {}

C10_Frame ==
    last'.op \in {"prepare_bundle", "prepare_component"} =>
        /\ sub_storages' =
              [sub_storages EXCEPT ![last'.a + 1].storage.sparse_sets =
                  VecGet(sub_storages', last'.a).storage.sparse_sets]
        /\ indices' = indices
        /\ resources' = resources
        /\ non_send_resources' = non_send_resources
        /\ \A cache \in SUBSET BundleIds :
              LET old == [VecGet(sub_storages, last'.a).storage
                             EXCEPT !.prepared = cache]
                  new == [VecGet(sub_storages', last'.a).storage
                             EXCEPT !.prepared = cache]
              IN  IF last'.op = "prepare_bundle"
                  THEN prepare_bundle(old, components, BundleOf(last'.b)) = new
                  ELSE prepare_component(
                          old, get_info_unchecked(components, last'.b)) = new

\* C10: prepare_bundle and prepare_component change nothing but the sparse-set
\* collection of the partition they are called on: its empty marker, tables and
\* prepared cache, every other partition and both resource pools are unchanged,
\* and the effect is the same whatever the prepared cache holds.
C10_PrepareFrame ==
    [][C10_Frame]_vars

C10_Witness ==
    /\ last.op = "prepare_bundle"
    /\ Len(sub_storages) = 2
    /\ VecGet(sub_storages, last.a).storage.prepared # {}
    /\ VecGet(sub_storages, last.a).storage.tables # <<>>
    /\ DOMAIN VecGet(sub_storages, 1 - last.a).storage.sparse_sets # {}
    /\ resources # {} /\ non_send_resources # {}

\* C9: for in-range ids a # b, get_2_mut(a, b) returns its pair in argument
\* order, the partition index(a) returns and then the one index(b) returns,
\* whichever is the larger, and it leaves the collection as it was.
C9_Get2MutArgumentOrder ==
    [][ last'.op = "get_2_mut" =>
          /\ (last'.a # last'.b /\ InRange(last'.a) /\ InRange(last'.b)) =>
                /\ ~last'.panicked
                /\ last'.refs = index(sub_storages, last'.a).refs
                                   \o index(sub_storages, last'.b).refs
                /\ VecGet(sub_storages, last'.refs[1]).id = last'.a
                /\ VecGet(sub_storages, last'.refs[2]).id = last'.b
          /\ sub_storages' = sub_storages
          /\ indices' = indices ]_vars

C9_Witness ==
    /\ last.op = "get_2_mut" /\ ~last.panicked
    /\ last.a < last.b
    /\ last.refs = <<last.a, last.b>>

====
